---------------------------- MODULE Spec2Model ----------------------------
(***************************************************************************)
(* Model of halftime_bot.py: a single sequential process that announces    *)
(* itself, runs one check cycle, and then polls forever.  A check cycle    *)
(* (check_games) fetches the scoreboard, posts the day's schedule once     *)
(* and sends one halftime notification per game identifier.                *)
(*                                                                         *)
(* The program counter pc names the statement of main() about to run:      *)
(*   "main"              line 151, the webhook validation                  *)
(*   "announce"          line 154, the startup announcement                *)
(*   "startup_check"     line 157, check_games() outside the try block     *)
(*   "loop"              line 162, the day comparison at the top of try    *)
(*   "reset_notify"      line 166, the reset notification                  *)
(*   "check_after_reset" line 167, check_games() of a rollover tick        *)
(*   "check"             line 169, check_games() of every tick             *)
(*   "returned"          check_games() has just returned or raised; main() *)
(*                       resumes after the call or in the handler, line 170*)
(*   "sleep"             line 173, time.sleep(POLL_SECONDS)                *)
(*   "exited"            an exception left main(): the process is gone     *)
(*                                                                         *)
(* Module globals.  Line 8 binds the name WEBHOOK and line 14 is a         *)
(* comment, while main(), send_discord() and check_games() read the names  *)
(* DISCORD_WEBHOOK and PING_USER_ID.  Python resolves a global name when   *)
(* the statement runs, so what these two names are bound to is part of     *)
(* the state the program is started in.  The file as it stands leaves      *)
(* both unbound ("unbound"): every read raises NameError.  The model also  *)
(* covers the namespaces in which they are bound (the destination read     *)
(* from the configuration: absent, empty, malformed or well-formed).       *)
(*                                                                         *)
(* Inputs.  A fetch either raises (network error, non-2xx status, a body   *)
(* that is not the expected JSON object) or returns a list of at most      *)
(* MaxEvents game records; records are structurally complete apart from    *)
(* the identifier, which may be missing.  A delivery either succeeds or    *)
(* raises; within one call of check_games the first failing delivery ends  *)
(* the call, so the deliveries of a call are drawn as `budget`, the        *)
(* number of deliveries that succeed before one fails.                     *)
(*                                                                         *)
(* Specifications.  Spec is one run of the process.  SpecRestart adds one  *)
(* stop and start of the process (lines 18-20 run again; nothing is kept   *)
(* on disk).  LiveSpec adds a point after which every fetch and delivery   *)
(* succeeds, and the fairness of a process that keeps running.  SpecTime   *)
(* and SpecSchedule apply format_time_until and the line building of       *)
(* post_schedule_once to arguments drawn from bounded sets; fn_in holds    *)
(* the argument and fn_out the result.                                     *)
(***************************************************************************)
EXTENDS Integers, Sequences, FiniteSets, TLC

\* ---------------------------------------------------------------- bounds
\* days are 0..MaxDay; the process is started on day 0
MaxDay == 2
\* a fetched scoreboard holds at most MaxEvents records
MaxEvents == 2

\* seconds slept between two ticks (not observable in the model: a tick is
\* one pass through the loop body, whatever its duration)
POLL_SECONDS == 60

\* ------------------------------------------------------------ game records
NoId == "none"
Ids == {"g1", "g2"}
StatusNames == {"STATUS_HALFTIME", "STATUS_IN_PROGRESS"}
StatusDetails == {"Halftime", "4:12 - 3rd Quarter"}

\* the provider sends name and detail consistently or not: all four
\* combinations occur
Events == [id : Ids \cup {NoId}, name : StatusNames, detail : StatusDetails]

RECURSIVE SeqsUpTo(_, _)
SeqsUpTo(S, n) ==
    IF n = 0 THEN {<< >>}
    ELSE LET shorter == SeqsUpTo(S, n - 1)
         IN  shorter \cup {Append(s, x) : s \in {t \in shorter : Len(t) = n - 1}, x \in S}

EventLists == SeqsUpTo(Events, MaxEvents)

\* the result of fetch_scoreboard(): it raised, or data.get("events", [])
FetchFailed == [ok |-> FALSE, events |-> << >>]
FetchResults == {FetchFailed} \cup {[ok |-> TRUE, events |-> l] : l \in EventLists}

\* a call of check_games makes at most 1 + MaxEvents deliveries
MaxSends == MaxEvents + 1

\* ------------------------------------------------------------ module globals
WebhookValues == {"unbound", "none", "empty", "malformed", "wellformed"}
PingValues == {"unbound", "bound"}

VARIABLES
    pc,                       \* the statement of main() about to run
    DISCORD_WEBHOOK,          \* what the global name is bound to
    PING_USER_ID,             \* what the global name is bound to
    today,                    \* the environment's local date, date.today()
    alerted_games,            \* line 18
    last_day,                 \* line 19
    posted_schedule_for_day,  \* line 20
    \* ---- observers: they record what was delivered, nothing reads them
    halftime_sent,            \* id -> halftime notifications delivered since the last rollover
    schedule_sent,            \* schedule summaries delivered since the last rollover
    reset_tried,              \* reset notifications attempted since the last rollover
    reset_sent,               \* reset notifications delivered since the last rollover
    rolled_over,              \* a rollover has been detected since the process started
    prev_alerted,             \* alerted_games as it was when the last rollover cleared it
    posted_any,               \* send_discord has been called at least once
    fetched_any,              \* fetch_scoreboard has been called at least once
    cycle,                    \* the last call of check_games: its inputs and what it did
    tick,                     \* what the current pass through the loop body did so far
    \* ---- the environment beyond one run of the process
    healthy,                  \* from now on every fetch and every delivery succeeds
    restarted,                \* the process was killed and started again
    prior_alerted,            \* alerted_games of the killed process, if it was killed on
                              \* the day it had last seen and restarted that same day
    prior_posted,             \* posted_schedule_for_day of the killed process, likewise
    \* ---- the argument and the result of a function applied on its own
    fn_in,
    fn_out

prog == <<pc, DISCORD_WEBHOOK, PING_USER_ID, today,
          alerted_games, last_day, posted_schedule_for_day>>
obs  == <<halftime_sent, schedule_sent, reset_tried, reset_sent, rolled_over,
          prev_alerted, posted_any, fetched_any, cycle, tick>>
env  == <<healthy, restarted, prior_alerted, prior_posted>>
fn   == <<fn_in, fn_out>>
vars == <<prog, obs, env, fn>>

\* ------------------------------------------------------------ pure functions

\* is_halftime(event), lines 80-82
\* (faulty variant: the detail text is not consulted)
is_halftime_name_only(event) == event.name = "STATUS_HALFTIME"
is_halftime(event) ==
    (event.name = "STATUS_HALFTIME") \/ (event.detail = "Halftime")

\* `if not game_id: continue`, lines 139-141: a missing or empty identifier
\* is falsy
\* (faulty variant: the `continue` of line 141 is never taken)
has_game_id_always(event) == TRUE
has_game_id(event) == event.id # NoId

\* the condition of line 143
\* (faulty variant: alerted_games is not consulted)
should_alert_any_halftime(event, alerted) == is_halftime(event)
should_alert(event, alerted) == is_halftime(event) /\ event.id \notin alerted

\* alerted_games.add(game_id), line 145
\* (faulty variant: the set is rebound to the new identifier alone)
mark_alerted_replaces(alerted, id) == {id}
mark_alerted(alerted, id) == alerted \cup {id}

\* main(), line 151: DISCORD_WEBHOOK.startswith(prefix) evaluates to True.
\* An unbound name raises NameError, None has no startswith (AttributeError),
\* and a string without the prefix makes main() raise ValueError.
\* (faulty variant: any non-empty string passes)
webhook_valid_if_set(w) == w \in {"malformed", "wellformed"}
webhook_valid(w) == w = "wellformed"

\* send_discord(msg), lines 23-29, with `ok` the outcome the network gives a
\* POST to the webhook: the call returns iff the name is bound to a URL that
\* can be posted to and the response is 2xx (raise_for_status, line 29)
send_discord(w, ok) == w = "wellformed" /\ ok

\* The f-strings of lines 144 and 154 read PING_USER_ID before send_discord
\* is called: NameError when the name is unbound
ping_readable(p) == p = "bound"

\* main(), line 162: the day comparison
\* (faulty variant: every tick is taken for the first of a new day)
day_changed_always(now, last) == TRUE
day_changed(now, last) == now # last

\* main(), lines 163-165: the reset, with d what date.today() returns at
\* line 164
\* (faulty variant: line 163 is missing)
reset_keeps_alerted(alerted, d) == [alerted |-> alerted, last_day |-> d, posted |-> FALSE]
reset_for_new_day(alerted, d) == [alerted |-> {}, last_day |-> d, posted |-> FALSE]

\* ------------------------------------------------------------ check cycle

\* post_schedule_once(events), lines 93-127.  `budget` is the number of
\* deliveries that succeed before one fails.  Returns the new flag, whether
\* the call raised, which summary was delivered and how many deliveries it
\* attempted.
\* (faulty variant: the early return of lines 98-99 is missing)
post_schedule_always(events, w, posted, budget) ==
    LET msg == IF events = << >> THEN "no_games" ELSE "list"
    IN  IF send_discord(w, budget > 0)
        THEN [posted |-> TRUE, raised |-> FALSE, delivered |-> msg, tried |-> 1]
        ELSE [posted |-> posted, raised |-> TRUE, delivered |-> "nothing", tried |-> 1]
\* (faulty variant: the flag is set before the delivery is known to have succeeded)
post_schedule_marks_first(events, w, posted, budget) ==
    IF posted
    THEN [posted |-> TRUE, raised |-> FALSE, delivered |-> "nothing", tried |-> 0]
    ELSE LET msg == IF events = << >> THEN "no_games" ELSE "list"
         IN  IF send_discord(w, budget > 0)
             THEN [posted |-> TRUE, raised |-> FALSE, delivered |-> msg, tried |-> 1]
             ELSE [posted |-> TRUE, raised |-> TRUE, delivered |-> "nothing", tried |-> 1]
post_schedule_once(events, w, posted, budget) ==
    IF posted
    THEN [posted |-> TRUE, raised |-> FALSE, delivered |-> "nothing", tried |-> 0]
    ELSE LET msg == IF events = << >> THEN "no_games" ELSE "list"
         IN  IF send_discord(w, budget > 0)
             THEN [posted |-> TRUE, raised |-> FALSE, delivered |-> msg, tried |-> 1]
             ELSE [posted |-> FALSE, raised |-> TRUE, delivered |-> "nothing", tried |-> 1]

\* the loop of check_games, lines 138-145, from record i on.  `notified` is
\* the sequence of positions (in the fetched list) whose notification was
\* delivered so far.  The result names the record at which the loop raised
\* (failed_at, 0 when it did not) and why.
RECURSIVE halftime_scan(_, _, _, _, _, _, _)

\* (faulty variant: the identifier is marked before its notification is
\* sent, so a failed delivery leaves it marked)
halftime_scan_marks_first(events, i, w, p, alerted, budget, notified) ==
    IF i > Len(events)
    THEN [alerted |-> alerted, raised |-> FALSE, notified |-> notified, tried |-> 0,
          failed_at |-> 0, failure |-> "none"]
    ELSE LET event == events[i]
         IN  IF ~has_game_id(event) \/ ~should_alert(event, alerted)
             THEN halftime_scan(events, i + 1, w, p, alerted, budget, notified)
             ELSE IF ~ping_readable(p)
                  THEN [alerted |-> alerted, raised |-> TRUE,
                        notified |-> notified, tried |-> 0,
                        failed_at |-> i, failure |-> "name_error"]
                  ELSE IF send_discord(w, budget > 0)
                       THEN LET rest == halftime_scan(events, i + 1, w, p,
                                            mark_alerted(alerted, event.id), budget - 1,
                                            Append(notified, i))
                            IN  [rest EXCEPT !.tried = @ + 1]
                       ELSE [alerted |-> mark_alerted(alerted, event.id), raised |-> TRUE,
                             notified |-> notified, tried |-> 1,
                             failed_at |-> i, failure |-> "halftime_delivery"]

halftime_scan(events, i, w, p, alerted, budget, notified) ==
    IF i > Len(events)
    THEN [alerted |-> alerted, raised |-> FALSE, notified |-> notified, tried |-> 0,
          failed_at |-> 0, failure |-> "none"]
    ELSE LET event == events[i]
         IN  IF ~has_game_id(event)
             THEN halftime_scan(events, i + 1, w, p, alerted, budget, notified)
             ELSE IF should_alert(event, alerted)
                  THEN IF ~ping_readable(p)
                       THEN [alerted |-> alerted, raised |-> TRUE,
                             notified |-> notified, tried |-> 0,
                             failed_at |-> i, failure |-> "name_error"]
                       ELSE IF send_discord(w, budget > 0)
                            THEN LET rest == halftime_scan(events, i + 1, w, p,
                                                 mark_alerted(alerted, event.id), budget - 1,
                                                 Append(notified, i))
                                 IN  [rest EXCEPT !.tried = @ + 1]
                            ELSE [alerted |-> alerted, raised |-> TRUE,
                                  notified |-> notified, tried |-> 1,
                                  failed_at |-> i, failure |-> "halftime_delivery"]
                  ELSE halftime_scan(events, i + 1, w, p, alerted, budget, notified)

\* (faulty variant: the halftime loop runs before the schedule is posted)
check_events_scan_first(events, w, p, alerted, posted, budget) ==
    LET h == halftime_scan(events, 1, w, p, alerted, budget, << >>)
    IN  IF h.raised
        THEN [alerted |-> h.alerted, posted |-> posted, raised |-> TRUE,
              schedule |-> "nothing", notified |-> h.notified, tried |-> h.tried,
              failed_at |-> h.failed_at, failure |-> h.failure]
        ELSE LET s == post_schedule_once(events, w, posted, budget - h.tried)
             IN  [alerted |-> h.alerted, posted |-> s.posted, raised |-> s.raised,
                  schedule |-> s.delivered, notified |-> h.notified,
                  tried |-> s.tried + h.tried, failed_at |-> 0,
                  failure |-> IF s.raised THEN "schedule_delivery" ELSE "none"]

\* check_games() from line 132 on: the schedule, then the halftime loop,
\* on the fetched list
check_events(events, w, p, alerted, posted, budget) ==
    LET s == post_schedule_once(events, w, posted, budget)
    IN  IF s.raised
        THEN [alerted |-> alerted, posted |-> s.posted, raised |-> TRUE,
              schedule |-> "nothing", notified |-> << >>, tried |-> s.tried,
              failed_at |-> 0, failure |-> "schedule_delivery"]
        ELSE LET h == halftime_scan(events, 1, w, p, alerted,
                                    budget - s.tried, << >>)
             IN  [alerted |-> h.alerted, posted |-> s.posted, raised |-> h.raised,
                  schedule |-> s.delivered, notified |-> h.notified,
                  tried |-> s.tried + h.tried,
                  failed_at |-> h.failed_at, failure |-> h.failure]

\* check_games(), lines 130-145, given what fetch_scoreboard() returned: an
\* exception of line 131 leaves the function before anything else happens
\* (faulty variant: a failed fetch is treated as an empty scoreboard)
check_games_fetch_error_as_empty(fetch, w, p, alerted, posted, budget) ==
    check_events(fetch.events, w, p, alerted, posted, budget)
check_games(fetch, w, p, alerted, posted, budget) ==
    IF ~fetch.ok
    THEN [alerted |-> alerted, posted |-> posted, raised |-> TRUE,
          schedule |-> "nothing", notified |-> << >>, tried |-> 0,
          failed_at |-> 0, failure |-> "fetch"]
    ELSE check_events(fetch.events, w, p, alerted, posted, budget)

\* ------------------------------------------------------------ control flow

\* where main() continues after the validation of lines 151-152
after_validation(valid) == IF valid THEN "announce" ELSE "exited"

\* where main() continues after line 154, which no try block encloses
after_announce(raised) == IF raised THEN "exited" ELSE "startup_check"

\* where main() continues after lines 162-165
\* (faulty variant: line 166 is missing)
after_day_check_skipping_notice(changed) == IF changed THEN "check_after_reset" ELSE "check"
after_day_check(changed) == IF changed THEN "reset_notify" ELSE "check"

\* where main() continues after line 166, inside the try block
after_reset_notify(raised) == IF raised THEN "sleep" ELSE "check_after_reset"

\* where main() continues after a call of check_games at `site`: an
\* exception at line 157 leaves main(), one at lines 167 and 169 is caught
\* at line 170 and the loop goes on to line 173
\* (faulty variant: no call of check_games is inside a try block)
after_check_uncaught(site, raised) ==
    IF raised
    THEN "exited"
    ELSE CASE site = "startup_check"     -> "loop"
           [] site = "check_after_reset" -> "check"
           [] site = "check"             -> "sleep"
after_check(site, raised) ==
    IF raised
    THEN IF site = "startup_check" THEN "exited" ELSE "sleep"
    ELSE CASE site = "startup_check"     -> "loop"
           [] site = "check_after_reset" -> "check"
           [] site = "check"             -> "sleep"

\* ------------------------------------------------------------ observers
NoCycle == [site |-> "none", fetch |-> FetchFailed,
            before |-> {}, posted_before |-> FALSE,
            raised |-> FALSE, schedule |-> "nothing", notified |-> << >>,
            failed_at |-> 0, failure |-> "none"]
NewTick == [rolled |-> FALSE, fetch_failed |-> FALSE, delivered |-> FALSE,
            start |-> [alerted |-> {}, posted |-> FALSE, last_day |-> 0]]

\* the number of positions of `notified` that hold identifier g
Delivered(events, notified, g) ==
    Cardinality({k \in 1..Len(notified) : events[notified[k]].id = g})

\* ------------------------------------------------------------ inputs
\* what the network may answer: anything, or success only once the
\* environment is healthy
Fetches(h) == IF h THEN {f \in FetchResults : f.ok} ELSE FetchResults
Budgets(h) == IF h THEN {MaxSends} ELSE 0..MaxSends
Outcomes(h) == IF h THEN {TRUE} ELSE BOOLEAN

\* no function is being applied on its own
NoArgument == [fn |-> "none"]
NoResult == [form |-> "none"]

\* ------------------------------------------------------------ the process
ModuleLoaded ==
    /\ pc = "main"
    /\ DISCORD_WEBHOOK \in WebhookValues
    /\ PING_USER_ID \in PingValues
    /\ today = 0
    /\ alerted_games = {}
    /\ last_day = 0
    /\ posted_schedule_for_day = FALSE
    /\ halftime_sent = [g \in Ids |-> 0]
    /\ schedule_sent = 0
    /\ reset_tried = 0
    /\ reset_sent = 0
    /\ rolled_over = FALSE
    /\ prev_alerted = {}
    /\ posted_any = FALSE
    /\ fetched_any = FALSE
    /\ cycle = NoCycle
    /\ tick = NewTick

Init ==
    /\ ModuleLoaded
    /\ healthy = FALSE
    /\ restarted = FALSE
    /\ prior_alerted = {}
    /\ prior_posted = FALSE
    /\ fn_in = NoArgument
    /\ fn_out = NoResult

\* main(), lines 151-152: the validation of the destination
Validate ==
    /\ pc = "main"
    /\ pc' = after_validation(webhook_valid(DISCORD_WEBHOOK))
    /\ UNCHANGED <<DISCORD_WEBHOOK, PING_USER_ID, today,
                   alerted_games, last_day, posted_schedule_for_day, obs>>
    /\ UNCHANGED <<env, fn>>

\* main(), line 154: the startup announcement
Announce ==
    /\ pc = "announce"
    /\ \E ok \in Outcomes(healthy) :
          IF ~ping_readable(PING_USER_ID)
          THEN pc' = after_announce(TRUE) /\ UNCHANGED posted_any
          ELSE /\ posted_any' = TRUE
               /\ pc' = after_announce(~send_discord(DISCORD_WEBHOOK, ok))
    /\ UNCHANGED <<DISCORD_WEBHOOK, PING_USER_ID, today,
                   alerted_games, last_day, posted_schedule_for_day,
                   halftime_sent, schedule_sent, reset_tried, reset_sent, rolled_over,
                   prev_alerted, fetched_any, cycle, tick>>
    /\ UNCHANGED <<env, fn>>

\* main(), lines 157, 167 and 169: one call of check_games()
CheckGames ==
    /\ pc \in {"startup_check", "check_after_reset", "check"}
    /\ \E fetch \in Fetches(healthy), budget \in Budgets(healthy) :
          \E r \in {check_games(fetch, DISCORD_WEBHOOK, PING_USER_ID,
                                alerted_games, posted_schedule_for_day, budget)} :
              /\ alerted_games' = r.alerted
              /\ posted_schedule_for_day' = r.posted
              /\ pc' = "returned"
              /\ halftime_sent' =
                    [g \in Ids |-> halftime_sent[g] + Delivered(fetch.events, r.notified, g)]
              /\ schedule_sent' = schedule_sent + (IF r.schedule = "nothing" THEN 0 ELSE 1)
              /\ posted_any' = (posted_any \/ r.tried > 0)
              /\ fetched_any' = TRUE
              /\ cycle' = [site |-> pc, fetch |-> fetch,
                           before |-> alerted_games,
                           posted_before |-> posted_schedule_for_day,
                           raised |-> r.raised, schedule |-> r.schedule,
                           notified |-> r.notified,
                           failed_at |-> r.failed_at, failure |-> r.failure]
              /\ tick' = IF pc = "startup_check" THEN tick
                         ELSE [tick EXCEPT
                                 !.fetch_failed = @ \/ ~fetch.ok,
                                 !.delivered = @ \/ r.schedule # "nothing"
                                                 \/ r.notified # << >>]
    /\ UNCHANGED <<DISCORD_WEBHOOK, PING_USER_ID, today, last_day,
                   reset_tried, reset_sent, rolled_over, prev_alerted>>
    /\ UNCHANGED <<env, fn>>

\* main() resumes after a call of check_games(): at the statement after the
\* call, in the handler of lines 170-171, or nowhere (line 157 raised)
Resume ==
    /\ pc = "returned"
    /\ pc' = after_check(cycle.site, cycle.raised)
    /\ cycle' = NoCycle
    /\ UNCHANGED <<DISCORD_WEBHOOK, PING_USER_ID, today,
                   alerted_games, last_day, posted_schedule_for_day,
                   halftime_sent, schedule_sent, reset_tried, reset_sent, rolled_over,
                   prev_alerted, posted_any, fetched_any, tick>>
    /\ UNCHANGED <<env, fn>>

\* main(), lines 162-165: the day comparison and, on a new day, the reset.
\* date.today() is read at line 162 and again at line 164; midnight may
\* pass between the two reads.
LoopTop ==
    /\ pc = "loop"
    /\ pc' = after_day_check(day_changed(today, last_day))
    /\ IF day_changed(today, last_day)
       THEN /\ \E d \in {today, today + 1} \cap 0..MaxDay :
                  \E r \in {reset_for_new_day(alerted_games, d)} :
                      /\ today' = d
                      /\ last_day' = r.last_day
                      /\ alerted_games' = r.alerted
                      /\ posted_schedule_for_day' = r.posted
            /\ halftime_sent' = [g \in Ids |-> 0]
            /\ schedule_sent' = 0
            /\ reset_tried' = 0
            /\ reset_sent' = 0
            /\ rolled_over' = TRUE
            /\ prev_alerted' = alerted_games
       ELSE /\ UNCHANGED <<today, last_day, alerted_games, posted_schedule_for_day,
                           halftime_sent, schedule_sent, reset_tried, reset_sent,
                           rolled_over, prev_alerted>>
    /\ tick' = [NewTick EXCEPT
                  !.rolled = day_changed(today, last_day),
                  !.start = [alerted |-> alerted_games,
                             posted |-> posted_schedule_for_day,
                             last_day |-> last_day]]
    /\ UNCHANGED <<DISCORD_WEBHOOK, PING_USER_ID, posted_any, fetched_any, cycle>>
    /\ UNCHANGED <<env, fn>>

\* main(), line 166: the reset notification
ResetNotify ==
    /\ pc = "reset_notify"
    /\ \E ok \in Outcomes(healthy) :
          LET sent == send_discord(DISCORD_WEBHOOK, ok)
          IN  /\ pc' = after_reset_notify(~sent)
              /\ reset_tried' = reset_tried + 1
              /\ reset_sent' = reset_sent + (IF sent THEN 1 ELSE 0)
              /\ tick' = [tick EXCEPT !.delivered = @ \/ sent]
    /\ posted_any' = TRUE
    /\ UNCHANGED <<DISCORD_WEBHOOK, PING_USER_ID, today,
                   alerted_games, last_day, posted_schedule_for_day,
                   halftime_sent, schedule_sent, rolled_over, prev_alerted,
                   fetched_any, cycle>>
    /\ UNCHANGED <<env, fn>>

\* main(), lines 170-173: the end of a pass through the loop body
Sleep ==
    /\ pc = "sleep"
    /\ pc' = "loop"
    /\ tick' = NewTick
    /\ UNCHANGED <<DISCORD_WEBHOOK, PING_USER_ID, today,
                   alerted_games, last_day, posted_schedule_for_day,
                   halftime_sent, schedule_sent, reset_tried, reset_sent, rolled_over,
                   prev_alerted, posted_any, fetched_any, cycle>>
    /\ UNCHANGED <<env, fn>>

\* the environment: the local date changes while the process runs
Midnight ==
    /\ pc # "exited"
    /\ today < MaxDay
    /\ today' = today + 1
    /\ UNCHANGED <<pc, DISCORD_WEBHOOK, PING_USER_ID,
                   alerted_games, last_day, posted_schedule_for_day, obs>>
    /\ UNCHANGED <<env, fn>>

Next ==
    \/ Validate
    \/ Announce
    \/ CheckGames
    \/ Resume
    \/ LoopTop
    \/ ResetNotify
    \/ Sleep
    \/ Midnight

Spec == Init /\ [][Next]_vars

\* ------------------------------------------------------------ recovery
\* the environment: from now on the provider answers every fetch and the
\* webhook accepts every message
Recover ==
    /\ ~healthy
    /\ pc # "exited"
    /\ healthy' = TRUE
    /\ UNCHANGED <<prog, obs, restarted, prior_alerted, prior_posted, fn>>

\* a statement of the process runs
Step ==
    \/ Validate
    \/ Announce
    \/ CheckGames
    \/ Resume
    \/ LoopTop
    \/ ResetNotify
    \/ Sleep

NextLive ==
    \/ Next
    \/ Recover

\* the process is never stopped from outside and time.sleep returns: a
\* statement that can run does run
LiveSpec == Init /\ [][NextLive]_vars /\ WF_vars(Step)

\* ------------------------------------------------------------ a restart
\* Lines 18-20 as a new process runs them on day d.  `saved` is what the
\* process before held in its three globals: nothing is written to disk
\* and nothing is read back, so it does not reach the new process.
\* (faulty variant: the globals of the process before are restored)
start_process_restores(saved, d) == saved
start_process(saved, d) == [alerted |-> {}, posted |-> FALSE, last_day |-> d]

\* the environment: the process is stopped (while it sleeps, or after it
\* ended) and the program is started again, once
Restart ==
    /\ ~restarted
    /\ pc \in {"sleep", "exited"}
    /\ restarted' = TRUE
    /\ prior_alerted' = IF last_day = today THEN alerted_games ELSE {}
    /\ prior_posted' = (last_day = today /\ posted_schedule_for_day)
    /\ pc' = "main"
    /\ \E r \in {start_process([alerted |-> alerted_games,
                                 posted |-> posted_schedule_for_day,
                                 last_day |-> last_day], today)} :
          /\ alerted_games' = r.alerted
          /\ posted_schedule_for_day' = r.posted
          /\ last_day' = r.last_day
    /\ halftime_sent' = [g \in Ids |-> 0]
    /\ schedule_sent' = 0
    /\ reset_tried' = 0
    /\ reset_sent' = 0
    /\ rolled_over' = FALSE
    /\ prev_alerted' = {}
    /\ posted_any' = FALSE
    /\ fetched_any' = FALSE
    /\ cycle' = NoCycle
    /\ tick' = NewTick
    /\ UNCHANGED <<DISCORD_WEBHOOK, PING_USER_ID, today, healthy, fn>>

NextRestart ==
    \/ Next
    \/ Restart

SpecRestart == Init /\ [][NextRestart]_vars

TypeOK ==
    /\ pc \in {"main", "announce", "startup_check", "loop", "reset_notify",
               "check_after_reset", "check", "returned", "sleep", "exited"}
    /\ DISCORD_WEBHOOK \in WebhookValues
    /\ PING_USER_ID \in PingValues
    /\ today \in 0..MaxDay
    /\ last_day \in 0..MaxDay
    /\ alerted_games \subseteq Ids
    /\ posted_schedule_for_day \in BOOLEAN
    /\ rolled_over \in BOOLEAN
    /\ prev_alerted \subseteq Ids
    /\ healthy \in BOOLEAN
    /\ restarted \in BOOLEAN
    /\ prior_alerted \subseteq Ids
    /\ prior_posted \in BOOLEAN
    /\ fn_in.fn \in {"none", "format_time_until", "schedule_lines"}
    /\ fn_out.form \in {"none", "started", "in_m", "in_h", "in_h_m", "lines"}

\* ------------------------------------------------------------ properties

\* the positions of a fetched list that hold a record with an identifier
\* that is at halftime by either signal
HalftimePositions(events) ==
    {i \in 1..Len(events) :
        /\ events[i].id # NoId
        /\ (events[i].name = "STATUS_HALFTIME" \/ events[i].detail = "Halftime")}

\* the set of positions a sequence of positions holds
Range(seq) == {seq[k] : k \in 1..Len(seq)}

\* a call of check_games has just ended (the state observed is the one it
\* left; cycle describes the call)
CycleEnded == pc = "returned"
CycleCompleted == CycleEnded /\ ~cycle.raised

\* C1: between two consecutive day rollovers (and between the start of the
\* process and the first rollover) at most one halftime notification is
\* delivered for each game identifier.
C1_AtMostOneHalftimePerDay ==
    \A g \in Ids : halftime_sent[g] <= 1

\* C1 witness: a check cycle completed in which a record of an identifier
\* already alerted that day was fetched at halftime again, and the count of
\* that identifier is still one.
C1_Witness ==
    /\ CycleCompleted
    /\ \E i \in HalftimePositions(cycle.fetch.events) :
          /\ cycle.fetch.events[i].id \in cycle.before
          /\ halftime_sent[cycle.fetch.events[i].id] = 1

CycleStep == pc \in {"startup_check", "check_after_reset", "check"} /\ pc' = "returned"

\* C3: the step of a tick that finds date.today() different from last_day
\* empties alerted_games, clears posted_schedule_for_day and sets last_day to
\* the current date; and after a rollover a check cycle that completes
\* has delivered that day's schedule summary and a halftime notification for
\* every fetched halftime record whose identifier was alerted the day before.
C3_RolloverResets ==
    [][ /\ (pc = "loop" /\ today # last_day /\ pc' # "loop")
            => /\ alerted_games' = {}
               /\ posted_schedule_for_day' = FALSE
               /\ last_day' = today'
               /\ last_day' # last_day
        /\ (CycleStep /\ rolled_over /\ ~cycle'.raised)
            => /\ schedule_sent' = 1
               /\ \A i \in HalftimePositions(cycle'.fetch.events) :
                     cycle'.fetch.events[i].id \in prev_alerted
                         => halftime_sent'[cycle'.fetch.events[i].id] = 1
      ]_vars

\* C3 witness: after a rollover, an identifier alerted the day before has
\* been notified again and the new day's summary has been delivered.
C3_Witness ==
    /\ rolled_over
    /\ schedule_sent = 1
    /\ \E g \in prev_alerted : halftime_sent[g] = 1

\* C4 as claimed: at the end of any steady-state tick in which a fetch
\* failed, no notification has been delivered during that tick.
C4_Original ==
    (pc = "sleep" /\ tick.fetch_failed) => ~tick.delivered

\* C4 amended: a check cycle whose fetch fails delivers nothing and leaves
\* alerted_games, posted_schedule_for_day and last_day unchanged; in the
\* loop its exception is caught and the process goes on to sleep; and a tick
\* that detected no rollover and whose fetch failed ends with no
\* notification delivered and in the state it began in (so the next tick
\* starts from the state tick N started from).
C4_FailedFetchChangesNothing ==
    /\ [](pc = "sleep" /\ tick.fetch_failed /\ ~tick.rolled
            => /\ ~tick.delivered
               /\ tick.start = [alerted |-> alerted_games,
                                posted |-> posted_schedule_for_day,
                                last_day |-> last_day])
    /\ [][ /\ (CycleStep /\ ~cycle'.fetch.ok)
               => /\ cycle'.raised
                  /\ UNCHANGED <<alerted_games, posted_schedule_for_day, last_day,
                                 halftime_sent, schedule_sent, reset_sent, posted_any>>
           /\ (pc = "returned" /\ pc' # pc /\ ~cycle.fetch.ok
                  /\ cycle.site # "startup_check")
               => pc' = "sleep"
         ]_vars

\* C4 witness: a tick without rollover whose fetch failed has ended, on a
\* day on which alerts had been delivered before.
C4_Witness ==
    /\ pc = "sleep"
    /\ tick.fetch_failed
    /\ ~tick.rolled
    /\ alerted_games # {}
    /\ posted_schedule_for_day

\* C5: every identifier that enters alerted_games in a step had its halftime
\* notification delivered in that step, posted_schedule_for_day becomes true
\* only in a step that delivered a schedule summary, a failed schedule
\* delivery leaves the flag and the set unchanged, and the identifier of a
\* record whose halftime delivery failed is not in the set afterwards.
C5_MarkOnlyAfterDelivery ==
    [][ /\ \A g \in alerted_games' \ alerted_games :
               halftime_sent'[g] = halftime_sent[g] + 1
        /\ (posted_schedule_for_day' /\ ~posted_schedule_for_day)
               => schedule_sent' = schedule_sent + 1
        /\ (CycleStep /\ cycle'.failure = "schedule_delivery")
               => /\ UNCHANGED <<alerted_games, posted_schedule_for_day>>
                  /\ ~posted_schedule_for_day'
                  /\ UNCHANGED <<halftime_sent, schedule_sent>>
        /\ (CycleStep /\ cycle'.failure = "halftime_delivery")
               => /\ cycle'.fetch.events[cycle'.failed_at].id \notin alerted_games'
                  /\ halftime_sent'[cycle'.fetch.events[cycle'.failed_at].id] = 0
      ]_vars

\* C5 witness: a check cycle delivered one halftime notification, marked its
\* identifier, and then failed to deliver the next one.
C5_Witness ==
    /\ CycleEnded
    /\ cycle.failure = "halftime_delivery"
    /\ cycle.notified # << >>
    /\ cycle.fetch.events[cycle.failed_at].id \notin alerted_games
    /\ \E k \in 1..Len(cycle.notified) :
          cycle.fetch.events[cycle.notified[k]].id \in alerted_games \ cycle.before

\* C6 as claimed: with a well-formed destination (and every global name
\* readable) no failed fetch and no failed delivery ends the process.
C6_Original ==
    (DISCORD_WEBHOOK = "wellformed" /\ PING_USER_ID = "bound") => pc # "exited"

\* C7: when the destination is missing (name unbound or bound to None),
\* empty or without the webhook prefix, the process never gets past the
\* validation: it is at line 151 or has exited, send_discord was never
\* called and fetch_scoreboard was never called.
C7_BadDestinationExitsAtStartup ==
    DISCORD_WEBHOOK \in {"unbound", "none", "empty", "malformed"}
        => /\ pc \in {"main", "exited"}
           /\ ~posted_any
           /\ ~fetched_any

\* C7 witness: the process has exited on a destination without the prefix,
\* having sent and fetched nothing.
C7_Witness ==
    /\ DISCORD_WEBHOOK = "malformed"
    /\ pc = "exited"
    /\ ~posted_any
    /\ ~fetched_any

\* C8 as claimed: once a rollover has been detected and line 166 has run,
\* the reset notification of that day has been delivered; in particular it
\* has been delivered whenever a schedule summary or a halftime notification
\* of that day has.
C8_Original ==
    /\ (rolled_over /\ pc # "reset_notify") => reset_sent = 1
    /\ (rolled_over /\ (schedule_sent > 0 \/ \E g \in Ids : halftime_sent[g] > 0))
           => reset_sent = 1

\* C8 amended: for every detected rollover the reset notification is
\* attempted exactly once, and before anything else of the new day is
\* delivered: until line 166 has run nothing of the new day has been
\* delivered, afterwards exactly one attempt has been made, and a step that
\* delivers the reset notification starts from a state in which neither a
\* schedule summary nor a halftime notification of that day was delivered.
\* No reset notification is attempted before the first rollover.
C8_ResetAttemptedFirst ==
    /\ [](IF rolled_over
          THEN IF pc = "reset_notify"
               THEN /\ reset_tried = 0
                    /\ schedule_sent = 0
                    /\ \A g \in Ids : halftime_sent[g] = 0
               ELSE reset_tried = 1 /\ reset_sent <= 1
          ELSE reset_tried = 0 /\ reset_sent = 0)
    /\ [][ reset_sent' > reset_sent
              => /\ schedule_sent = 0
                 /\ \A g \in Ids : halftime_sent[g] = 0
                 /\ pc = "reset_notify"
         ]_vars

\* C8 witness: on a day begun by a rollover the reset notification, the
\* schedule summary and a halftime notification have all been delivered.
C8_Witness ==
    /\ rolled_over
    /\ reset_sent = 1
    /\ schedule_sent = 1
    /\ \E g \in Ids : halftime_sent[g] = 1

\* the positions the halftime loop must notify: halftime records with an
\* identifier that was not alerted before the cycle and that no earlier
\* halftime record of the list carries
DuePositions(events, before) ==
    {i \in HalftimePositions(events) :
        /\ events[i].id \notin before
        /\ \A j \in HalftimePositions(events) : j < i => events[j].id # events[i].id}

\* C9: a check cycle that completes has delivered a halftime notification
\* for exactly the fetched records that have an identifier, are at halftime
\* (by status name or by detail text) and whose identifier was not alerted
\* when the record was reached, once each and in list order; and afterwards
\* alerted_games is what it was plus the identifiers of the fetched halftime
\* records.
C9_CompletedCycleNotifiesExactlyDue ==
    CycleCompleted
        => LET events == cycle.fetch.events
           IN  /\ Range(cycle.notified) = DuePositions(events, cycle.before)
               /\ \A k \in 1..Len(cycle.notified) - 1 :
                     cycle.notified[k] < cycle.notified[k + 1]
               /\ \A i \in HalftimePositions(events) : events[i].id \in alerted_games
               /\ alerted_games =
                     cycle.before \cup {events[i].id : i \in HalftimePositions(events)}

\* C9 witness: a completed cycle notified a record that is at halftime by
\* its detail text only, and skipped another record that has an identifier.
C9_Witness ==
    /\ CycleCompleted
    /\ \E i \in Range(cycle.notified) :
          /\ cycle.fetch.events[i].name # "STATUS_HALFTIME"
          /\ cycle.fetch.events[i].detail = "Halftime"
    /\ \E j \in 1..Len(cycle.fetch.events) :
          /\ cycle.fetch.events[j].id # NoId
          /\ j \notin Range(cycle.notified)

\* the positions of a fetched list that hold a record without identifier
NoIdPositions(events) == {i \in 1..Len(events) : events[i].id = NoId}

\* C10: in a check cycle whose fetched list holds a record without an
\* identifier, that record is neither notified nor marked and is not where
\* the cycle raised; the cycle raises only on a failed delivery (or an
\* unreadable name) for another record or for the summary; the summary is
\* delivered if due unless its own delivery failed; and when the cycle
\* completes every halftime record with an identifier is in alerted_games.
C10_RecordWithoutIdSkipped ==
    (CycleEnded /\ cycle.fetch.ok /\ NoIdPositions(cycle.fetch.events) # {})
        => LET events == cycle.fetch.events
           IN  /\ \A i \in NoIdPositions(events) :
                     i \notin Range(cycle.notified) /\ cycle.failed_at # i
               /\ NoId \notin alerted_games
               /\ alerted_games \ cycle.before
                     = {events[i].id : i \in Range(cycle.notified)}
               /\ cycle.raised
                     => cycle.failure \in {"schedule_delivery", "halftime_delivery",
                                           "name_error"}
               /\ (~cycle.posted_before /\ cycle.failure # "schedule_delivery")
                     => cycle.schedule = "list"
               /\ ~cycle.raised
                     => \A i \in HalftimePositions(events) : events[i].id \in alerted_games

\* C10 witness: a completed cycle fetched a record without identifier whose
\* status says halftime, followed by a halftime record with an identifier;
\* the summary was due and delivered and the second record was notified.
C10_Witness ==
    /\ CycleCompleted
    /\ Len(cycle.fetch.events) = 2
    /\ cycle.fetch.events[1].id = NoId
    /\ cycle.fetch.events[1].name = "STATUS_HALFTIME"
    /\ cycle.schedule = "list"
    /\ cycle.notified = <<2>>

\* the step is the rollover reset of lines 163-165
RolloverStep == pc = "loop" /\ today # last_day /\ pc' # "loop"

\* C11: the rollover reset empties alerted_games; every other step leaves
\* every identifier of alerted_games in it.  A call of check_games extends
\* the set by one new identifier per delivered halftime notification (each
\* marking adds the one identifier just notified), and a step that is
\* neither a call of check_games nor the rollover reset leaves the set as
\* it is.
C11_AlertedOnlyGrowsUntilRollover ==
    [][ IF RolloverStep
        THEN alerted_games' = {}
        ELSE /\ alerted_games \subseteq alerted_games'
             /\ CycleStep
                   => /\ alerted_games' =
                            alerted_games \cup
                            {cycle'.fetch.events[i].id : i \in Range(cycle'.notified)}
                      /\ Cardinality(alerted_games' \ alerted_games)
                            = Len(cycle'.notified)
                      /\ \A g \in Ids :
                            mark_alerted(alerted_games, g) \ alerted_games \subseteq {g}
             /\ ~CycleStep => alerted_games' = alerted_games
      ]_vars

\* C11 witness: a call of check_games that started with a non-empty
\* alerted_games delivered a halftime notification and marked its
\* identifier; and the set was emptied by a rollover before.
C11_Witness ==
    /\ CycleEnded
    /\ cycle.before # {}
    /\ cycle.notified # << >>
    /\ cycle.before \subseteq alerted_games
    /\ alerted_games # cycle.before
    /\ rolled_over
    /\ prev_alerted # {}

\* C16: whenever alerted_games is not empty, posted_schedule_for_day is
\* true; a halftime notification has been delivered since the last rollover
\* only if the schedule summary has been delivered since then; and a call
\* of check_games whose schedule delivery failed has notified and marked
\* nothing.
C16_AlertedImpliesSchedulePosted ==
    /\ alerted_games # {} => posted_schedule_for_day
    /\ (\E g \in Ids : halftime_sent[g] > 0) => schedule_sent = 1
    /\ (CycleEnded /\ cycle.failure = "schedule_delivery")
          => /\ cycle.notified = << >>
             /\ alerted_games = cycle.before
             /\ ~posted_schedule_for_day

\* C16 witness: a call of check_games in the loop began with the flag
\* still false (an earlier call that day ended before the summary was
\* delivered), delivered the summary and then a halftime notification,
\* and left a non-empty alerted_games.
C16_Witness ==
    /\ CycleEnded
    /\ ~cycle.posted_before
    /\ cycle.schedule = "list"
    /\ cycle.notified # << >>
    /\ alerted_games # {}
    /\ posted_schedule_for_day
    /\ cycle.site = "check"

\* C17: a call of check_games that ends on a failed halftime delivery has
\* notified only records before the failing one, has marked exactly the
\* identifiers it notified (they stay in alerted_games and their count for
\* the day is one), has neither notified nor marked the failing record or
\* any record after it, and leaves the failing record, and every later
\* halftime record whose identifier is not marked, eligible for an alert;
\* in the loop the exception is caught, and the process goes on to sleep
\* with alerted_games as the call left it.
C17_ScanStopsAtFailedDelivery ==
    [][ /\ (CycleStep /\ cycle'.failure = "halftime_delivery")
            => LET events == cycle'.fetch.events
                   f == cycle'.failed_at
                   done == {events[i].id : i \in Range(cycle'.notified)}
               IN  /\ cycle'.raised
                   /\ f \in 1..Len(events)
                   /\ \A i \in Range(cycle'.notified) : i < f
                   /\ alerted_games' = alerted_games \cup done
                   /\ done \cap alerted_games = {}
                   /\ \A g \in done : halftime_sent'[g] = 1
                   /\ \A g \in Ids \ done : halftime_sent'[g] = halftime_sent[g]
                   /\ events[f].id \notin alerted_games'
                   /\ should_alert(events[f], alerted_games')
                   /\ \A j \in (f + 1)..Len(events) :
                         /\ j \notin Range(cycle'.notified)
                         /\ (j \in HalftimePositions(events)
                                /\ events[j].id \notin alerted_games')
                               => should_alert(events[j], alerted_games')
        /\ (pc = "returned" /\ cycle.failure = "halftime_delivery"
                /\ cycle.site # "startup_check" /\ pc' # "returned")
            => /\ pc' = "sleep"
               /\ alerted_games' = alerted_games
      ]_vars

\* C17 witness: in the loop, a call of check_games fetched two halftime
\* records of different identifiers, neither alerted before; the delivery
\* for the first failed, and the call ended with neither marked.
C17_Witness ==
    /\ CycleEnded
    /\ cycle.site = "check"
    /\ cycle.failure = "halftime_delivery"
    /\ cycle.failed_at = 1
    /\ Len(cycle.fetch.events) = 2
    /\ 2 \in HalftimePositions(cycle.fetch.events)
    /\ cycle.fetch.events[2].id # cycle.fetch.events[1].id
    /\ cycle.fetch.events[2].id \notin alerted_games
    /\ cycle.fetch.events[1].id \notin alerted_games

\* C18: when the reset notification is about to be attempted,
\* alerted_games is already empty, posted_schedule_for_day already false
\* and last_day already updated; the attempt, delivered or not, leaves the
\* three as they are, and a failed one is caught and followed by sleep; at
\* most one attempt is made per rollover; and a tick that finds
\* date.today() equal to last_day resets nothing, attempts no reset
\* notification and goes on to check_games.
C18_ResetKeptWhenNoticeFails ==
    [][ /\ pc' = "reset_notify"
            => /\ alerted_games' = {}
               /\ ~posted_schedule_for_day'
               /\ last_day' # tick'.start.last_day
               /\ reset_tried' = 0
        /\ pc = "reset_notify" /\ pc' # "reset_notify"
            => /\ alerted_games' = alerted_games
               /\ posted_schedule_for_day' = posted_schedule_for_day
               /\ last_day' = last_day
               /\ reset_tried' = 1
               /\ reset_sent' = reset_sent => pc' = "sleep"
               /\ reset_sent' # reset_sent => pc' = "check_after_reset"
        /\ reset_tried' <= 1
        /\ (pc = "loop" /\ today = last_day /\ pc' # "loop")
            => /\ pc' = "check"
               /\ reset_tried' = reset_tried
               /\ UNCHANGED <<alerted_games, posted_schedule_for_day, last_day>>
      ]_vars

\* C18 witness: the reset notification of a rollover failed, and a later
\* tick of the same day has found no rollover and is about to call
\* check_games with the reset still in place.
C18_Witness ==
    /\ pc = "check"
    /\ rolled_over
    /\ reset_tried = 1
    /\ reset_sent = 0
    /\ today = last_day
    /\ ~tick.rolled
    /\ alerted_games = {}
    /\ ~posted_schedule_for_day

\* C12: a start of the process (the first one, or the one after a restart)
\* has alerted_games empty and posted_schedule_for_day false, and a restart
\* sets last_day to the date of the restart; so the first call of
\* check_games of a process that completes delivers the schedule summary
\* and notifies every fetched halftime record with an identifier, and any
\* call that completes after a restart, before a rollover, leaves the
\* summary delivered and every fetched halftime record that the process
\* before had alerted on that day notified, by the new process.
C12_RestartRearms ==
    [][ /\ pc' = "main" => (alerted_games' = {} /\ ~posted_schedule_for_day')
        /\ (restarted' /\ ~restarted)
            => /\ pc' = "main"
               /\ last_day' = today'
               /\ \A g \in Ids : halftime_sent'[g] = 0
               /\ schedule_sent' = 0
        /\ (CycleStep /\ pc = "startup_check" /\ ~cycle'.raised)
            => /\ cycle'.schedule # "nothing"
               /\ Range(cycle'.notified) = HalftimePositions(cycle'.fetch.events)
                     \ {j \in 1..Len(cycle'.fetch.events) :
                           \E i \in 1..(j - 1) :
                               /\ i \in HalftimePositions(cycle'.fetch.events)
                               /\ cycle'.fetch.events[i].id = cycle'.fetch.events[j].id}
        /\ (CycleStep /\ restarted /\ ~rolled_over /\ ~cycle'.raised)
            => /\ schedule_sent' = 1
               /\ \A i \in HalftimePositions(cycle'.fetch.events) :
                     cycle'.fetch.events[i].id \in prior_alerted
                         => halftime_sent'[cycle'.fetch.events[i].id] = 1
      ]_vars

\* C12 witness: the process was restarted on a day on which it had
\* delivered the schedule summary and alerted a game; on that same day the
\* new process has delivered the summary again and notified that game
\* again.
C12_Witness ==
    /\ restarted
    /\ ~rolled_over
    /\ today = last_day
    /\ prior_posted
    /\ schedule_sent = 1
    /\ \E g \in prior_alerted : halftime_sent[g] = 1

\* ------------------------------------------------------------ the time-until text
\* Instants are counted in ticks of 1/SubSecond second (datetime counts
\* microseconds); an argument of format_time_until is the start instant and
\* what datetime.now() returns at line 57.
SubSecond == 2
MaxNow == 1
MaxRemaining == 7300

Instants == 0..(MaxNow + MaxRemaining * SubSecond)
TimeArguments ==
    [fn : {"format_time_until"}, start : Instants, now : 0..MaxNow]

\* int(x) for the quotient x = n / d of an integer by a positive integer:
\* the fraction is dropped, towards zero
int_of_quotient(n, d) == IF n >= 0 THEN n \div d ELSE -((-n) \div d)

\* the texts of lines 62, 69, 71 and 72, by the return statement that
\* builds them and the numbers it prints
until_text(form, hours, mins) == [form |-> form, hours |-> hours, mins |-> mins]
Started == until_text("started", 0, 0)

\* format_time_until(), lines 56-72
format_time_until(start_local, now) ==
    LET delta == start_local - now
        seconds == int_of_quotient(delta, SubSecond)
        minutes == (seconds + 59) \div 60
        hours == minutes \div 60
        mins == minutes % 60
    IN  IF seconds <= 0 THEN Started
        ELSE IF hours = 0 THEN until_text("in_m", 0, mins)
        ELSE IF mins = 0 THEN until_text("in_h", hours, 0)
        ELSE until_text("in_h_m", hours, mins)

InitTime ==
    /\ ModuleLoaded
    /\ DISCORD_WEBHOOK = "wellformed"
    /\ PING_USER_ID = "bound"
    /\ healthy = FALSE
    /\ restarted = FALSE
    /\ prior_alerted = {}
    /\ prior_posted = FALSE
    /\ fn_in \in TimeArguments
    /\ fn_out = NoResult

\* one call of format_time_until
FormatTimeUntil ==
    /\ fn_out = NoResult
    /\ fn_in.fn = "format_time_until"
    /\ fn_out' = format_time_until(fn_in.start, fn_in.now)
    /\ UNCHANGED <<prog, obs, env, fn_in>>

NextTime ==
    \/ FormatTimeUntil

SpecTime == InitTime /\ [][NextTime]_vars

\* the remaining time in whole minutes, rounded up, of an instant after now
MinutesUp(start, now) ==
    ((start - now) + 60 * SubSecond - 1) \div (60 * SubSecond)

\* the text the claim gives for a start instant and a now
ClaimedUntil(start, now) ==
    IF start <= now THEN Started
    ELSE LET m == MinutesUp(start, now)
         IN  IF m < 60 THEN until_text("in_m", 0, m)
             ELSE IF m % 60 = 0 THEN until_text("in_h", m \div 60, 0)
             ELSE until_text("in_h_m", m \div 60, m % 60)

\* C13 as claimed: for every start instant and every now, counted finer
\* than a second, format_time_until returns 'started' iff start <= now, and
\* otherwise the text of the remaining time rounded up to whole minutes.
C13_Original ==
    fn_out # NoResult
        => /\ fn_out = ClaimedUntil(fn_in.start, fn_in.now)
           /\ fn_out = Started <=> fn_in.start <= fn_in.now

\* ------------------------------------------------------------ the schedule lines
\* A fetched game as post_schedule_once reads it: its "date" (NoDate when
\* the key is missing or empty, line 49, else its instant) and the pair of
\* teams that get_home_away returns, which identifies the game.
MaxDate == 2
MaxGames == 3

NoDate == 0
Matchups == {"A @ B", "C @ D", "E @ F"}
Games == [date : {NoDate} \cup 1..MaxDate, matchup : Matchups]
GameLists == UNION {[1..n -> Games] : n \in 1..MaxGames}
ScheduleArguments ==
    [fn : {"schedule_lines"}, events : GameLists, now : 0..MaxNow]

\* parse_event_datetime_local(), lines 47-53: None (NoDate) when there is
\* no date, else the instant
parse_event_datetime_local(e) == IF e.date = NoDate THEN NoDate ELSE e.date

\* float("inf"), line 109: above every timestamp
Infinity == MaxNow + MaxRemaining * SubSecond + MaxDate + 1

\* sort_key, lines 107-109
\* (faulty variant: a game without date gets the lowest key)
sort_key_undated_lowest(e) ==
    IF parse_event_datetime_local(e) # NoDate
    THEN parse_event_datetime_local(e)
    ELSE 0
sort_key(e) ==
    IF parse_event_datetime_local(e) # NoDate
    THEN parse_event_datetime_local(e)
    ELSE Infinity

\* the place of e in a list sorted by key: behind every element whose key
\* is not greater (sorted() is stable)
RECURSIVE insert_sorted(_, _)
insert_sorted(done, e) ==
    IF done = << >> THEN <<e>>
    ELSE IF sort_key(done[Len(done)]) <= sort_key(e)
         THEN Append(done, e)
         ELSE Append(insert_sorted(SubSeq(done, 1, Len(done) - 1), e),
                     done[Len(done)])

\* sorted(events, key=sort_key), line 111
RECURSIVE sorted(_)
sorted(events) ==
    IF events = << >> THEN << >>
    ELSE insert_sorted(sorted(SubSeq(events, 1, Len(events) - 1)),
                       events[Len(events)])

\* the line of one game, lines 115-123: its start time, the time until it
\* and the teams, or "TBD" and the teams
schedule_line(e, now) ==
    IF parse_event_datetime_local(e) # NoDate
    THEN [form |-> "timed", start |-> parse_event_datetime_local(e),
          until |-> format_time_until(parse_event_datetime_local(e), now),
          matchup |-> e.matchup]
    ELSE [form |-> "TBD", start |-> NoDate, until |-> NoResult,
          matchup |-> e.matchup]

\* the lines of the message of line 125, in order (lines 111-123)
schedule_lines(events, now) ==
    [k \in 1..Len(events) |-> schedule_line(sorted(events)[k], now)]

InitSchedule ==
    /\ ModuleLoaded
    /\ DISCORD_WEBHOOK = "wellformed"
    /\ PING_USER_ID = "bound"
    /\ healthy = FALSE
    /\ restarted = FALSE
    /\ prior_alerted = {}
    /\ prior_posted = FALSE
    /\ fn_in \in ScheduleArguments
    /\ fn_out = NoResult

\* post_schedule_once builds the lines of the summary of a non-empty list
BuildSchedule ==
    /\ fn_out = NoResult
    /\ fn_in.fn = "schedule_lines"
    /\ fn_out' = [form |-> "lines",
                  lines |-> schedule_lines(fn_in.events, fn_in.now)]
    /\ UNCHANGED <<prog, obs, env, fn_in>>

NextSchedule ==
    \/ BuildSchedule

SpecSchedule == InitSchedule /\ [][NextSchedule]_vars

\* the matchups of the undated games of a fetched list, in list order
UndatedInOrder(events) ==
    LET undated == SelectSeq(events, LAMBDA e : e.date = NoDate)
    IN  [k \in 1..Len(undated) |-> undated[k].matchup]

\* the matchups of the "TBD" lines, in line order
TbdInOrder(lines) ==
    LET tbd == SelectSeq(lines, LAMBDA l : l.form = "TBD")
    IN  [k \in 1..Len(tbd) |-> tbd[k].matchup]

\* C14: the summary has as many lines as games were fetched, and for each
\* game as many lines showing its start and teams as the list holds copies
\* of it; a line of a dated game is never below a "TBD" line, the lines of
\* dated games are in ascending order of start instant, and the "TBD"
\* lines name the undated games in the order of the fetched list.
C14_ScheduleLineOrder ==
    fn_out.form = "lines"
        => LET events == fn_in.events
               lines == fn_out.lines
           IN  /\ Len(lines) = Len(events)
               /\ \A g \in Games :
                     Cardinality({i \in 1..Len(events) : events[i] = g})
                        = Cardinality({k \in 1..Len(lines) :
                                          /\ lines[k].start = g.date
                                          /\ lines[k].matchup = g.matchup})
               /\ \A k \in 1..Len(lines) :
                     lines[k].form = "TBD" <=> lines[k].start = NoDate
               /\ \A j, k \in 1..Len(lines) :
                     j < k
                        => /\ lines[j].form = "TBD" => lines[k].form = "TBD"
                           /\ lines[k].form = "timed"
                                 => lines[j].start <= lines[k].start
               /\ TbdInOrder(lines) = UndatedInOrder(events)

\* C14 witness: the lines were built for a list of three games, an
\* undated one, then a dated one, then another undated one; the dated game
\* has the first line and the two undated games follow in fetched order.
C14_Witness ==
    /\ fn_out.form = "lines"
    /\ Len(fn_in.events) = 3
    /\ fn_in.events[1].date = NoDate
    /\ fn_in.events[2].date # NoDate
    /\ fn_in.events[3].date = NoDate
    /\ fn_in.events[1].matchup # fn_in.events[3].matchup
    /\ fn_out.lines[1].form = "timed"
    /\ fn_out.lines[2].matchup = fn_in.events[1].matchup
    /\ fn_out.lines[3].matchup = fn_in.events[3].matchup

\* the process is inside the while loop of lines 159-173
InLoop ==
    \/ pc \in {"loop", "reset_notify", "check_after_reset", "check", "sleep"}
    \/ pc = "returned" /\ cycle.site # "startup_check"

\* a call of check_games made in the loop has returned with the day's
\* summary delivered and every fetched halftime record with an identifier
\* notified on that day
AllDelivered ==
    /\ CycleCompleted
    /\ cycle.site # "startup_check"
    /\ posted_schedule_for_day
    /\ schedule_sent = 1
    /\ \A i \in HalftimePositions(cycle.fetch.events) :
          /\ cycle.fetch.events[i].id \in alerted_games
          /\ halftime_sent[cycle.fetch.events[i].id] = 1

\* C15: no failure ends the loop once the process is in it; a call of
\* check_games made in the loop while every fetch and delivery succeeds
\* completes, and leaves the day's schedule summary delivered and every
\* fetched halftime record with an identifier notified that day (in that
\* call or before), whatever happened on earlier ticks; and from any point
\* in the loop after which every fetch and delivery succeeds, such a call
\* eventually returns.
C15_DeliveredOnceFailuresStop ==
    /\ [][ /\ InLoop => InLoop'
           /\ (CycleStep /\ healthy /\ pc # "startup_check")
                 => /\ ~cycle'.raised
                    /\ posted_schedule_for_day'
                    /\ schedule_sent' = 1
                    /\ \A i \in HalftimePositions(cycle'.fetch.events) :
                          /\ cycle'.fetch.events[i].id \in alerted_games'
                          /\ halftime_sent'[cycle'.fetch.events[i].id] = 1
         ]_vars
    /\ (healthy /\ InLoop) ~> AllDelivered

\* C15 witness: on a day whose reset notification failed and whose
\* first calls of check_games delivered nothing, fetches and deliveries
\* have begun to succeed, and a call in the loop has delivered the summary
\* and a halftime notification.
C15_Witness ==
    /\ healthy
    /\ AllDelivered
    /\ reset_tried = 1
    /\ reset_sent = 0
    /\ ~cycle.posted_before
    /\ cycle.schedule = "list"
    /\ cycle.notified # << >>
=============================================================================
